---- MODULE Spec2Model ----
(***************************************************************************)
(* A model of snakecite: the command-line driver (snakecite/__main__.py)   *)
(* and the citation library (snakecite/cite.py).                           *)
(*                                                                         *)
(* The program is sequential.  Its state is the position of main (pc), the *)
(* locals of the functions on the call stack, and what it has written to   *)
(* standard output and to the error stream.  Everything the network or the *)
(* file system answers is an input, drawn from a small set at the step     *)
(* that reads it.                                                          *)
(***************************************************************************)
EXTENDS Integers, Sequences, FiniteSets, TLC

VARIABLES
    target,             \* args.target
    github_token,       \* args.github_token
    pc,                 \* position of the program
    files,              \* os.listdir(args.target), directory mode
    fileIdx,            \* index in files of the file being handled
    deps,               \* dependencies extracted from the current manifest
    depIdx,             \* index in deps of the dependency being handled
    fetched,            \* search_repositories: pages fetched for this dependency
    link,               \* search_repositories: how it ended, and its result
    caller,             \* which call site of main runs cite_github_repo
    token,              \* the token parameter of cite_github_repo / get_repo_authors
    repo_url,           \* the repo_url parameter of cite_github_repo
    api_request,        \* _query_github_api: the request it was given
    nth_try,            \* _query_github_api: loop variable nth_try
    nreq,               \* _query_github_api: urlopen calls of this call
    last,               \* _query_github_api: the response of the latest attempt
    slept,              \* _query_github_api: sleep() calls made handling last
    qResult,            \* _query_github_api: how the call ended
    authors_api_list,   \* get_repo_authors: the contributor list
    author_names,       \* get_repo_authors: names resolved so far
    filter_bot,         \* get_repo_authors: its filter_bot parameter
    authors,            \* how the latest get_repo_authors call ended
    repo_data,          \* cite_github_repo: repository metadata
    citeResult,         \* how the latest cite_github_repo call ended
    out,                \* units printed on stdout for the current dependency
    err,                \* lines written on stderr for the current dependency
    exc,                \* exception that left main uncaught ("None": none)
    exitCode,           \* process exit status (-1 while running)
    call,               \* a library function called on its own: name, argument
    ret                 \* how that call ended

vars == << target, github_token, pc, files, fileIdx, deps, depIdx, fetched,
           link, caller, token, repo_url, api_request, nth_try, nreq, last,
           slept, qResult,
           authors_api_list, author_names, filter_bot, authors, repo_data,
           citeResult, out, err, exc, exitCode, call, ret >>

(***************************************************************************)
(* Bounds of the model.                                                    *)
(***************************************************************************)
MaxDeps == 2        \* dependencies per manifest
MaxFiles == 1       \* entries of a directory listing
MaxContribs == 1    \* contributors in one API answer
MaxAuthors == 2     \* the same, when get_repo_authors is called on its own
MaxPieces == 3      \* pieces of a text given to a classifier or searched
MaxLines == 3       \* lines of a manifest

(***************************************************************************)
(* Python values.  A string-valued variable that may hold None uses the    *)
(* string "None"; header values are tagged with their Python type, because *)
(* the code compares them with integers.                                   *)
(***************************************************************************)
None == "None"
NoneV == [type |-> "NoneType", val |-> 0]
PyStr(n) == [type |-> "str", val |-> n]      \* the string that spells the number n
PyInt(n) == [type |-> "int", val |-> n]
PyFloat(n) == [type |-> "float", val |-> n]
Numeric(a) == a.type \in {"int", "float"}

\* bool(x) for a string or None
Truthy(x) == x # None /\ x # ""

\* a < b : numbers compare, any other pairing raises TypeError
PyLt(a, b) ==
    IF Numeric(a) /\ Numeric(b)
    THEN [raises |-> FALSE, val |-> a.val < b.val]
    ELSE [raises |-> TRUE, val |-> FALSE]

\* a == b : values of different types are unequal, nothing raises
PyEq(a, b) == a.type = b.type /\ a.val = b.val

\* a - b : numbers subtract, any other pairing raises TypeError
PySub(a, b) ==
    IF Numeric(a) /\ Numeric(b)
    THEN [raises |-> FALSE, val |-> PyFloat(a.val - b.val)]
    ELSE [raises |-> TRUE, val |-> NoneV]

(***************************************************************************)
(* The strings of the model.                                               *)
(***************************************************************************)
DoiLink == "https://doi.org/10.1093/bioinformatics/bts480"
RepoLink == "https://github.com/owner/Repo"
OtherUrl == "https://www.google.com"
DoiText == "10.1093/bioinformatics/bts480"
YamlPath == "environment.yaml"
TxtPath == "requirements.txt"
DirPath == "envs"
NoPath == "nowhere"

\* urlparse(url): the scheme and the netloc of the model's strings
urlparse(url) ==
    CASE url = DoiLink -> [scheme |-> "https", netloc |-> "doi.org"]
      [] url = RepoLink -> [scheme |-> "https", netloc |-> "github.com"]
      [] url = OtherUrl -> [scheme |-> "https", netloc |-> "www.google.com"]
      [] OTHER -> [scheme |-> "", netloc |-> ""]

is_url(url) ==
    LET result == urlparse(url) IN result.scheme # "" /\ result.netloc # ""

\* re.match of the DOI pattern / the GitHub pattern at the start of the string
is_doi_url(doi) == doi = DoiLink
is_github_repo(url) == url = RepoLink

\* re.search(r'https?://github\.com/([\w\-]+/([\w\-]+))', repo_url): groups 1, 2
RepoLoc(url) == IF url = RepoLink THEN "owner/Repo" ELSE None
RepoName(url) == IF url = RepoLink THEN "Repo" ELSE None
Lower(s) == IF s = "Repo" THEN "repo" ELSE s

(***************************************************************************)
(* What the GitHub API answers.                                            *)
(***************************************************************************)
max_retries == 3
max_wait == 60

HeaderNames ==
    {"retry_after", "retry-after", "x-ratelimit-remaining", "x-ratelimit-reset"}
NoHeaders == [h \in HeaderNames |-> NoneV]
\* e.headers[name]: None when the header is absent;  name in e.headers
HdrGet(hs, name) == hs[name]
HdrHas(hs, name) == hs[name] # NoneV

\* time(): the clock readings of the model, and the reset stamps built on them
Times == {1000}
RateLimitHeaders ==
    { NoHeaders,
      [NoHeaders EXCEPT !["retry_after"] = PyStr(30)],
      [NoHeaders EXCEPT !["retry_after"] = PyStr(120)],
      [NoHeaders EXCEPT !["retry-after"] = PyStr(120)],
      [NoHeaders EXCEPT !["x-ratelimit-remaining"] = PyStr(0),
                        !["x-ratelimit-reset"] = PyStr(1030)],
      [NoHeaders EXCEPT !["x-ratelimit-remaining"] = PyStr(0),
                        !["x-ratelimit-reset"] = PyStr(4600)] }

\* the wait a rate-limit response asks for, in seconds (0: it names none)
IndicatedWait(e, now) ==
    IF HdrHas(e.headers, "retry_after") THEN e.headers["retry_after"].val
    ELSE IF HdrHas(e.headers, "retry-after") THEN e.headers["retry-after"].val
    ELSE IF HdrHas(e.headers, "x-ratelimit-remaining")
            /\ e.headers["x-ratelimit-remaining"].val = 0
         THEN e.headers["x-ratelimit-reset"].val - now
    ELSE 0

Logins == {"octocat", "dependabot[bot]"}
DisplayNames == {None, "", "Mona Lisa"}
endswith_bot(s) == s \in {"dependabot[bot]"}

ApiUrl(api, arg) == [api |-> api, arg |-> arg]
Contributor(l) == [login |-> l, url |-> ApiUrl("users", l)]
\* get_repo_authors called on its own, not by cite_github_repo
Direct == caller = "get_repo_authors"
ContribLists ==
    UNION { [1..n -> {Contributor(l) : l \in Logins}] :
                n \in 0..(IF Direct THEN MaxAuthors ELSE MaxContribs) }

Stamp == << "2", "0", "2", "4", "-", "0", "5", "-", "1", "7", "T" >>
\* a decoded JSON value; NoJson is Python's None
NoJson == [t |-> "null", list |-> << >>, name |-> None, updated_at |-> << >>]
Bodies(api) ==
    CASE api = "contributors" ->
            { [NoJson EXCEPT !.t = "list", !.list = cl] : cl \in ContribLists }
      [] api = "users" ->
            { [NoJson EXCEPT !.t = "dict", !.name = n] : n \in DisplayNames }
      [] OTHER -> { [NoJson EXCEPT !.t = "dict", !.updated_at = Stamp] }

NoResponse == [kind |-> "none", code |-> 0, headers |-> NoHeaders, body |-> NoJson]
Responses(api) ==
    { [kind |-> "ok", code |-> 200, headers |-> NoHeaders, body |-> b] :
          b \in Bodies(api) }
    \cup { [kind |-> "HTTPError", code |-> c, headers |-> NoHeaders, body |-> NoJson] :
          c \in {404, 500} }
    \cup { [kind |-> "HTTPError", code |-> c, headers |-> h, body |-> NoJson] :
          c \in {403, 429}, h \in RateLimitHeaders }
    \cup { [kind |-> "URLError", code |-> 0, headers |-> NoHeaders, body |-> NoJson] }

(***************************************************************************)
(* How a call ends: it returns a value or raises an exception.             *)
(***************************************************************************)
NoResult == [kind |-> "none", exc |-> None, code |-> 0, val |-> NoJson]
Return(v) == [kind |-> "return", exc |-> None, code |-> 0, val |-> v]
Raise(name, code) == [kind |-> "raise", exc |-> name, code |-> code, val |-> NoJson]

(***************************************************************************)
(* _query_github_api                                                       *)
(***************************************************************************)
\* the except clause of one attempt (cite.py 75-89): what it does with the
\* HTTPError e of attempt nth (counted from 0), the clock reading now
Continue(sleeps) == [act |-> "continue", exc |-> None, code |-> 0, sleeps |-> sleeps]
Raises(name, code) == [act |-> "raise", exc |-> name, code |-> code, sleeps |-> << >>]

\* a variant whose fallback wait is the same 60 seconds on every attempt
RateLimited_FlatBackoff(e, nth, now) ==
    IF HdrHas(e.headers, "retry_after") THEN Raises("TypeError", 0)
    ELSE Continue(<< 60 >>)

\* case 403 | 429: lines 78-87
RateLimited(e, nth, now) ==
    IF HdrHas(e.headers, "retry_after")
    THEN \* line 79 compares an int with the header, a str; were they
         \* comparable, line 80 builds an Exception without raising it and
         \* line 81 calls e.headers, which is not callable
         LET cmp == PyLt(PyInt(max_wait), HdrGet(e.headers, "retry_after"))
         IN  IF cmp.raises THEN Raises("TypeError", 0)
             ELSE Raises("TypeError", 0)
    ELSE IF PyEq(HdrGet(e.headers, "x-ratelimit-remaining"), PyInt(0))
    THEN LET wait_length ==
                 PySub(HdrGet(e.headers, "x-ratelimit-reset"), PyFloat(now))
         IN  IF wait_length.raises THEN Raises("TypeError", 0)
             ELSE \* line 84 compares; line 85 builds an Exception without
                  \* raising it; nothing sleeps
                  Continue(<< >>)
    ELSE Continue(<< 60 * (nth + 1) >>)

\* a variant that treats 404 as one more rate-limit answer
HandleHTTPError_404Retried(e, nth, now) ==
    IF e.code \in {403, 429, 404} THEN RateLimited(e, nth, now)
    ELSE Raises("HTTPError", e.code)

\* a variant whose default case swallows the error and lets the loop go on
HandleHTTPError_OtherRetried(e, nth, now) ==
    IF e.code \in {403, 429} THEN RateLimited(e, nth, now)
    ELSE IF e.code = 404 THEN Raises("HTTPError", e.code)
    ELSE Continue(<< >>)

HandleHTTPError(e, nth, now) ==
    IF e.code \in {403, 429} THEN RateLimited(e, nth, now)
    ELSE Raises("HTTPError", e.code)

\* a variant that falls off the end of the function, returning None
Exhausted_ReturnsNone == Return(NoJson)

\* line 90, after the loop
Exhausted == Raise("Exception", 0)

\* the variables of one _query_github_api call
queryVars == << api_request, nth_try, nreq, last, slept, qResult >>

StartQuery(req) ==
    /\ api_request' = req
    /\ nth_try' = 0
    /\ nreq' = 0
    /\ last' = NoResponse
    /\ slept' = << >>
    /\ qResult' = NoResult
    /\ pc' = "query"

\* one pass of the loop body: lines 71-89
QueryAttempt ==
    /\ pc = "query"
    /\ nth_try < max_retries
    /\ \E r \in Responses(api_request.url.api), now \in Times :
        /\ last' = r
        /\ nreq' = nreq + 1
        /\ IF r.kind = "ok"
           THEN /\ qResult' = Return(r.body)
                /\ pc' = "qret"
                /\ UNCHANGED << nth_try >>
                /\ slept' = << >>
           ELSE IF r.kind = "URLError"
           THEN /\ qResult' = Raise("URLError", 0)
                /\ pc' = "qret"
                /\ UNCHANGED << nth_try >>
                /\ slept' = << >>
           ELSE LET h == HandleHTTPError(r, nth_try, now)
                IN  /\ slept' = h.sleeps
                    /\ IF h.act = "raise"
                       THEN /\ qResult' = Raise(h.exc, h.code)
                            /\ pc' = "qret"
                            /\ UNCHANGED << nth_try >>
                       ELSE /\ nth_try' = nth_try + 1
                            /\ UNCHANGED << qResult, pc >>
    /\ UNCHANGED << call, ret, target, github_token, files, fileIdx, deps, depIdx, fetched,
                    link, caller, token, repo_url, api_request, authors_api_list,
                    author_names, filter_bot, authors, repo_data, citeResult,
                    out, err, exc, exitCode >>

\* the loop is over: line 90
QueryExhausted ==
    /\ pc = "query"
    /\ nth_try >= max_retries
    /\ qResult' = Exhausted
    /\ pc' = "qret"
    /\ UNCHANGED << call, ret, target, github_token, files, fileIdx, deps, depIdx, fetched,
                    link, caller, token, repo_url, api_request, nth_try, nreq, last,
                    slept, authors_api_list, author_names, filter_bot, authors,
                    repo_data, citeResult, out, err, exc, exitCode >>

(***************************************************************************)
(* search_for_doi_or_github and search_repositories                        *)
(***************************************************************************)
\* A fetched page: whether urlopen succeeded, and what the two searches of
\* its text find (group 3 of the DOI pattern, group 1 of the GitHub one)
Pages ==
    { [ok |-> FALSE, doi |-> None, gh |-> None] }
    \cup { [ok |-> TRUE, doi |-> d, gh |-> g] :
              d \in {None, DoiText}, g \in {None, RepoLink} }

NoLink == [kind |-> "none", val |-> None, exc |-> None]
LReturn(v) == [kind |-> "return", val |-> v, exc |-> None]
LRaise(name) == [kind |-> "raise", val |-> None, exc |-> name]

\* "https://doi.org/" + doi.group(3)
DoiUrlOf(d) == IF d = DoiText THEN DoiLink ELSE None

search_for_doi_or_github(page) ==
    IF ~page.ok THEN LRaise("HTTPError")
    ELSE IF page.doi # None THEN LReturn(DoiUrlOf(page.doi))
    ELSE IF page.gh # None THEN LReturn(page.gh)
    ELSE LReturn(None)

\* a variant that asks bioconda before the package index
ProbeOrder_BiocondaFirst ==
    << "bioconda.github.io/recipes", "pypi.org/pypi", "anaconda.org/conda-forge" >>

\* the three pages of search_repositories, in the order it fetches them
ProbeOrder ==
    << "pypi.org/pypi", "bioconda.github.io/recipes", "anaconda.org/conda-forge" >>
ProbeUrl(i, dependency) == [site |-> ProbeOrder[i], dependency |-> dependency]

\* a variant without the try block
TryProbe_Unguarded(r) == r

\* try: ... except: pass  around one probe
TryProbe(r) == IF r.kind = "raise" THEN LReturn(None) ELSE r

\* one of the three try blocks of search_repositories (lines 245-260)
Probe ==
    /\ pc = "probe"
    /\ Len(fetched) < Len(ProbeOrder)
    /\ \E page \in Pages :
        LET i == Len(fetched) + 1
            r == TryProbe(search_for_doi_or_github(page))
        IN  /\ fetched' = Append(fetched, [url |-> ProbeUrl(i, deps[depIdx]), page |-> page])
            /\ IF r.kind = "raise"
               THEN /\ link' = r
                    /\ pc' = "probed"
               ELSE IF Truthy(r.val)
               THEN /\ link' = r
                    /\ pc' = "probed"
               ELSE IF i = Len(ProbeOrder)
               THEN /\ link' = LReturn(None)
                    /\ pc' = "probed"
               ELSE UNCHANGED << link, pc >>
    /\ UNCHANGED << call, ret, target, github_token, files, fileIdx, deps, depIdx, caller,
                    token, repo_url, api_request, nth_try, nreq, last, slept,
                    qResult, authors_api_list, author_names, filter_bot,
                    authors, repo_data, citeResult, out, err, exc, exitCode >>

(***************************************************************************)
(* get_repo_authors and cite_github_repo                                   *)
(***************************************************************************)
Unset == [set |-> FALSE, val |-> NoJson]
Set(v) == [set |-> TRUE, val |-> v]

\* headers = {"Authorization": f"token {token}"} if token else {}
Headers(tok) == IF Truthy(tok) THEN { << "Authorization", tok >> } ELSE {}
Request(url, headers) == [url |-> url, headers |-> headers]
NoRequest == Request(ApiUrl("none", None), {})

NoRecord == [key |-> None, title |-> None, author |-> << >>, url |-> None, date |-> << >>]
CReturn(rec) == [kind |-> "return", exc |-> None, code |-> 0, rec |-> rec]
CRaise(name, code) == [kind |-> "raise", exc |-> name, code |-> code, rec |-> NoRecord]
CNone == [kind |-> "none", exc |-> None, code |-> 0, rec |-> NoRecord]

\* how get_repo_authors ends: the list it returns, or what it raises
ANone == [kind |-> "none", names |-> << >>, exc |-> None, code |-> 0]
AReturn(names) == [kind |-> "return", names |-> names, exc |-> None, code |-> 0]
ARaise(name, code) == [kind |-> "raise", names |-> << >>, exc |-> name, code |-> code]

\* [author for author in author_names if not author.endswith("[bot]")]
RECURSIVE FilterBots(_)
FilterBots(names) ==
    IF names = << >> THEN << >>
    ELSE IF endswith_bot(Head(names)) THEN FilterBots(Tail(names))
    ELSE << Head(names) >> \o FilterBots(Tail(names))

\* the call of cite_github_repo: its locals, then get_repo_authors up to the
\* contributor request (cite.py 164, 116-128)
StartCite(url, tok) ==
    /\ repo_url' = url
    /\ token' = tok
    /\ authors_api_list' = Unset
    /\ author_names' = << >>
    /\ filter_bot' = TRUE
    /\ authors' = ANone
    /\ repo_data' = Unset
    /\ citeResult' = CNone
    /\ StartQuery(Request(ApiUrl("contributors", RepoLoc(url)), Headers(tok)))

\* a variant that goes on without authors and hands back what it has
ContribFailed_CitesWithoutAuthors(r) ==
    CReturn([NoRecord EXCEPT !.key = "repo", !.title = "Repo"])

\* what get_repo_authors does when the contributor request raised: nothing
\* catches it, neither there (line 128) nor in cite_github_repo (line 164)
ContribFailed(r) == CRaise(r.exc, r.code)

\* line 128 returns
ContribReturn ==
    /\ pc = "qret"
    /\ api_request.url.api = "contributors"
    /\ IF qResult.kind = "raise"
       THEN /\ authors' = ARaise(qResult.exc, qResult.code)
            /\ IF Direct
               THEN pc' = "returned" /\ UNCHANGED citeResult
               ELSE pc' = "cited" /\ citeResult' = ContribFailed(qResult)
            /\ UNCHANGED << api_request, nth_try, nreq, last, slept, qResult,
                            authors_api_list, author_names >>
       ELSE /\ authors_api_list' = Set(qResult.val)
            /\ author_names' = << >>
            /\ UNCHANGED citeResult
            /\ IF qResult.val.list = << >>
               THEN \* no contributor: lines 141-144, then 166-179
                    /\ authors' = AReturn(<< >>)
                    /\ IF Direct
                       THEN pc' = "returned" /\ UNCHANGED queryVars
                       ELSE StartQuery(Request(ApiUrl("repos", RepoLoc(repo_url)),
                                               Headers(token)))
               ELSE /\ UNCHANGED authors
                    /\ StartQuery(Request(qResult.val.list[1].url, Headers(token)))
    /\ UNCHANGED << call, ret, target, github_token, files, fileIdx, deps, depIdx,
                    fetched, link, caller, token, repo_url, filter_bot, repo_data,
                    out, err, exc, exitCode >>

\* a variant that takes whatever the lookup returned, empty or not
AuthorName_AsReturned(author, r) ==
    IF r.kind = "return" THEN r.val.name ELSE author.login

\* lines 134-139: the name one contributor is listed under
AuthorName(author, r) ==
    IF r.kind = "return"
    THEN IF Truthy(r.val.name) THEN r.val.name ELSE author.login
    ELSE author.login

\* lines 141-144: what get_repo_authors returns for the resolved names
Filtered(names, flt) == IF flt THEN FilterBots(names) ELSE names

\* line 135 returns or raises, for the contributor after those already named
AuthorReturn ==
    /\ pc = "qret"
    /\ api_request.url.api = "users"
    /\ LET list == authors_api_list.val.list
           author == list[Len(author_names) + 1]
           names == Append(author_names, AuthorName(author, qResult))
       IN  IF Len(names) < Len(list)
           THEN /\ author_names' = names
                /\ UNCHANGED authors
                /\ StartQuery(Request(list[Len(names) + 1].url, Headers(token)))
           ELSE \* lines 141-144, then (in cite_github_repo) 166-179
                /\ author_names' = Filtered(names, filter_bot)
                /\ authors' = AReturn(Filtered(names, filter_bot))
                /\ IF Direct
                   THEN pc' = "returned" /\ UNCHANGED queryVars
                   ELSE StartQuery(Request(ApiUrl("repos", RepoLoc(repo_url)),
                                           Headers(token)))
    /\ UNCHANGED << call, ret, target, github_token, files, fileIdx, deps, depIdx,
                    fetched, link, caller, token, repo_url, authors_api_list,
                    filter_bot, repo_data, citeResult, out, err, exc, exitCode >>

\* lines 180-188: the record; urldate is the day of the run and is left out
Record(url, names, data) ==
    [ key |-> Lower(RepoName(url)),
      title |-> RepoName(url),
      author |-> names,
      url |-> url,
      date |-> SubSeq(data.updated_at, 1, 4) ]

\* line 179 returns or raises
RepoReturn ==
    /\ pc = "qret"
    /\ api_request.url.api = "repos"
    /\ IF qResult.kind = "raise"
       THEN /\ citeResult' = CRaise(qResult.exc, qResult.code)
            /\ UNCHANGED repo_data
       ELSE /\ repo_data' = Set(qResult.val)
            /\ citeResult' = CReturn(Record(repo_url, author_names, qResult.val))
    /\ pc' = "cited"
    /\ UNCHANGED << call, ret, target, github_token, files, fileIdx, deps, depIdx, fetched,
                    link, caller, token, repo_url, api_request, nth_try, nreq,
                    last, slept, qResult, authors_api_list, author_names,
                    filter_bot, authors, out, err, exc, exitCode >>

(***************************************************************************)
(* get_doi_bibtex and the manifest files                                   *)
(***************************************************************************)
\* what the DOI resolver answers
DoiFetches == {"ok", "HTTPError", "URLError"}
BibTex == "@article{...}"
\* str() of the module object cite, which main passes at lines 68 and 90
ModuleCite == "<module 'snakecite.cite'>"

\* lines 204-206: Request() refuses a string without a scheme (ValueError),
\* urlopen raises on a failed fetch, the body is returned as it is
get_doi_bibtex(doi_url, fetch) ==
    IF urlparse(doi_url).scheme = "" THEN LRaise("ValueError")
    ELSE IF fetch = "ok" THEN LReturn(BibTex)
    ELSE LRaise(fetch)

\* the argument main gives get_doi_bibtex for a probed link (lines 68, 90)
doi_arg(lnk) == ModuleCite
\* the token main gives cite_github_repo (lines 52, 70, 92): none, so the
\* parameter takes its default
token_arg(args_token) == None

DepNames == << "numpy", "pandas", "scipy", "flask" >>
DepLists ==
    { [i \in 1..n |-> DepNames[((i - 1) % Len(DepNames)) + 1]] : n \in 0..MaxDeps }
\* a manifest: the names it lists, and whether its list region holds a line
\* that is no list item
Contents == { [deps |-> ds, malformed |-> m] : ds \in DepLists, m \in BOOLEAN }

FileNames == { YamlPath, "tools.yml", TxtPath }
\* file.lower().split(".")[-1]
Ending(name) ==
    CASE name = YamlPath -> "yaml"
      [] name = "tools.yml" -> "yml"
      [] name = TxtPath -> "txt"
      [] OTHER -> name
Listings ==
    { l \in UNION { [1..n -> FileNames] : n \in 0..MaxFiles } :
        \A i, j \in DOMAIN l : l[i] = l[j] => i = j }

DReturn(ds) == [kind |-> "return", deps |-> ds, exc |-> None]
DRaise(name) == [kind |-> "raise", deps |-> << >>, exc |-> name]

\* lines 271-287: hit.group(1) on a line without the item pattern raises
extract_dependencies_from_yaml(content) ==
    IF content.malformed THEN DRaise("AttributeError") ELSE DReturn(content.deps)
\* lines 290-300: lines without a match are skipped
extract_dependencies_from_txt(content) == DReturn(content.deps)
\* lines 263-268
extract_dependencies_from_file(filepath, content) ==
    IF Ending(filepath) \in {"yaml", "yml"}
    THEN extract_dependencies_from_yaml(content)
    ELSE extract_dependencies_from_txt(content)

(***************************************************************************)
(* main                                                                    *)
(***************************************************************************)
Targets ==
    { [text |-> t, fs |-> "missing"] : t \in {DoiLink, RepoLink, OtherUrl, NoPath} }
    \cup { [text |-> t, fs |-> "file"] : t \in {YamlPath, TxtPath} }
    \cup { [text |-> DirPath, fs |-> "dir"] }
Tokens == { None, "ghp_token" }

citeVars ==
    << token, repo_url, authors_api_list, author_names, filter_bot, authors,
       repo_data, citeResult >>
loopVars == << files, fileIdx, deps, depIdx >>

\* the except clauses around each call site of main: lines 48, 53-56, 73, 95
Catches(site, e) ==
    CASE site = "url_repo" -> TRUE
      [] OTHER -> e = "HTTPError"

Resume(site) ==
    IF site \in {"file", "dir"}
    THEN pc' = "loop" /\ UNCHANGED << exc, exitCode >>
    ELSE pc' = "exit" /\ exitCode' = 0 /\ UNCHANGED exc

Uncaught(e) == exc' = e /\ pc' = "exit" /\ exitCode' = 1

\* print(...) of what a call returned, or the handler of what it raised
Finish(site, kind, e) ==
    IF kind = "return"
    THEN out' = out + 1 /\ UNCHANGED err /\ Resume(site)
    ELSE IF Catches(site, e)
    THEN err' = err + 1 /\ UNCHANGED out /\ Resume(site)
    ELSE Uncaught(e) /\ UNCHANGED << out, err >>

\* lines 44-49
MainUrlDoi ==
    /\ pc = "start"
    /\ is_url(target.text)
    /\ is_doi_url(target.text)
    /\ caller' = "url_doi"
    /\ \E fetch \in DoiFetches :
          LET r == get_doi_bibtex(target.text, fetch)
          IN  Finish("url_doi", r.kind, r.exc)
    /\ UNCHANGED << call, ret, target, github_token, loopVars, fetched, link, citeVars, queryVars >>

\* lines 50-52
MainUrlRepo ==
    /\ pc = "start"
    /\ is_url(target.text)
    /\ ~is_doi_url(target.text)
    /\ is_github_repo(target.text)
    /\ caller' = "url_repo"
    /\ StartCite(target.text, token_arg(github_token))
    /\ UNCHANGED << call, ret, target, github_token, loopVars, fetched, link, out, err, exc, exitCode >>

\* a URL that is neither: no branch of lines 45-56 is taken
MainUrlOther ==
    /\ pc = "start"
    /\ is_url(target.text)
    /\ ~is_doi_url(target.text)
    /\ ~is_github_repo(target.text)
    /\ caller' = "url_other"
    /\ pc' = "exit"
    /\ exitCode' = 0
    /\ UNCHANGED << call, ret, target, github_token, loopVars, fetched, link, citeVars, queryVars,
                    out, err, exc >>

\* lines 59-60
MainFile ==
    /\ pc = "start"
    /\ ~is_url(target.text)
    /\ target.fs = "file"
    /\ caller' = "file"
    /\ \E content \in Contents :
          LET r == extract_dependencies_from_file(target.text, content)
          IN  IF r.kind = "raise"
              THEN Uncaught(r.exc) /\ UNCHANGED << deps, depIdx >>
              ELSE /\ deps' = r.deps
                   /\ depIdx' = 0
                   /\ pc' = "loop"
                   /\ UNCHANGED << exc, exitCode >>
    /\ UNCHANGED << call, ret, target, github_token, files, fileIdx, fetched, link, citeVars,
                    queryVars, out, err >>

\* lines 77-78
MainDir ==
    /\ pc = "start"
    /\ ~is_url(target.text)
    /\ target.fs = "dir"
    /\ caller' = "dir"
    /\ \E l \in Listings : files' = l
    /\ fileIdx' = 0
    /\ pc' = "dirloop"
    /\ UNCHANGED << call, ret, target, github_token, deps, depIdx, fetched, link, citeVars,
                    queryVars, out, err, exc, exitCode >>

\* lines 78-82: the next directory entry.  open(file) is given the bare
\* entry name, so it looks in the working directory
MainDirNext ==
    /\ pc = "dirloop"
    /\ IF fileIdx < Len(files)
       THEN /\ fileIdx' = fileIdx + 1
            /\ IF Ending(files[fileIdx + 1]) \notin {"yaml", "yml"}
               THEN UNCHANGED << pc, deps, depIdx, exc, exitCode >>
               ELSE \E inCwd \in BOOLEAN, content \in Contents :
                      LET r == IF inCwd THEN extract_dependencies_from_yaml(content)
                                        ELSE DRaise("FileNotFoundError")
                      IN  IF r.kind = "raise"
                          THEN Uncaught(r.exc) /\ UNCHANGED << deps, depIdx >>
                          ELSE /\ deps' = r.deps
                               /\ depIdx' = 0
                               /\ pc' = "loop"
                               /\ UNCHANGED << exc, exitCode >>
       ELSE /\ pc' = "exit"
            /\ exitCode' = 0
            /\ UNCHANGED << fileIdx, deps, depIdx, exc >>
    /\ UNCHANGED << call, ret, target, github_token, files, caller, fetched, link, citeVars,
                    queryVars, out, err >>

\* lines 98-104
MainFatal ==
    /\ pc = "start"
    /\ ~is_url(target.text)
    /\ target.fs = "missing"
    /\ caller' = "fatal"
    /\ err' = err + 1
    /\ pc' = "exit"
    /\ exitCode' = 1
    /\ UNCHANGED << call, ret, target, github_token, loopVars, fetched, link, citeVars, queryVars,
                    out, exc >>

\* for dep in deps (lines 61, 83): the next dependency, up to the call of
\* search_repositories
MainNextDep ==
    /\ pc = "loop"
    /\ IF depIdx < Len(deps)
       THEN /\ depIdx' = depIdx + 1
            /\ out' = 0
            /\ err' = 0
            /\ fetched' = << >>
            /\ link' = NoLink
            /\ pc' = "probe"
            /\ UNCHANGED exitCode
       ELSE /\ IF caller = "dir"
               THEN pc' = "dirloop" /\ UNCHANGED exitCode
               ELSE pc' = "exit" /\ exitCode' = 0
            /\ UNCHANGED << depIdx, out, err, fetched, link >>
    /\ UNCHANGED << call, ret, target, github_token, files, fileIdx, deps, caller, citeVars,
                    queryVars, exc >>

\* lines 63-74 / 85-96, once search_repositories is back
MainClassify ==
    /\ pc = "probed"
    /\ fetched' = << >>
    /\ IF link.kind = "raise"
       THEN Finish(caller, link.kind, link.exc) /\ UNCHANGED << citeVars, queryVars >>
       ELSE IF ~Truthy(link.val)
       THEN /\ err' = err + 1
            /\ pc' = "loop"
            /\ UNCHANGED << out, exc, exitCode, citeVars, queryVars >>
       ELSE IF is_doi_url(link.val)
       THEN /\ \E fetch \in DoiFetches :
                  LET r == get_doi_bibtex(doi_arg(link.val), fetch)
                  IN  Finish(caller, r.kind, r.exc)
            /\ UNCHANGED << citeVars, queryVars >>
       ELSE IF is_github_repo(link.val)
       THEN /\ StartCite(link.val, token_arg(github_token))
            /\ UNCHANGED << out, err, exc, exitCode >>
       ELSE /\ err' = err + 1
            /\ pc' = "loop"
            /\ UNCHANGED << out, exc, exitCode, citeVars, queryVars >>
    /\ UNCHANGED << call, ret, target, github_token, loopVars, caller, link >>

\* cite_github_repo is back in main: print, or the except clauses
MainAfterCite ==
    /\ pc = "cited"
    /\ Finish(caller, citeResult.kind, citeResult.exc)
    /\ UNCHANGED << call, ret, target, github_token, loopVars, caller, fetched, link, citeVars,
                    queryVars >>

\* no library function is called on its own
NoCall == [fn |-> "none"]
NoRet == [kind |-> "none"]

Init ==
    /\ target \in Targets
    /\ github_token \in Tokens
    /\ pc = "start"
    /\ files = << >>
    /\ fileIdx = 0
    /\ deps = << >>
    /\ depIdx = 0
    /\ fetched = << >>
    /\ link = NoLink
    /\ caller = "none"
    /\ token = None
    /\ repo_url = None
    /\ api_request = NoRequest
    /\ nth_try = 0
    /\ nreq = 0
    /\ last = NoResponse
    /\ slept = << >>
    /\ qResult = NoResult
    /\ authors_api_list = Unset
    /\ author_names = << >>
    /\ repo_data = Unset
    /\ citeResult = CNone
    /\ out = 0
    /\ err = 0
    /\ exc = None
    /\ exitCode = -1
    /\ filter_bot = TRUE
    /\ authors = ANone
    /\ call = NoCall
    /\ ret = NoRet

Next ==
    \/ MainUrlDoi
    \/ MainUrlRepo
    \/ MainUrlOther
    \/ MainFile
    \/ MainDir
    \/ MainDirNext
    \/ MainFatal
    \/ MainNextDep
    \/ Probe
    \/ MainClassify
    \/ QueryAttempt
    \/ QueryExhausted
    \/ ContribReturn
    \/ AuthorReturn
    \/ RepoReturn
    \/ MainAfterCite

Spec == Init /\ [][Next]_vars

(***************************************************************************)
(* get_repo_authors called on its own, with either value of filter_bot.    *)
(* The first state is the call of line 128: lines 117-126 have built the   *)
(* contributor request.                                                    *)
(***************************************************************************)
NoTarget == [text |-> None, fs |-> "missing"]

InitAuthors ==
    /\ target = NoTarget
    /\ github_token = None
    /\ pc = "query"
    /\ files = << >>
    /\ fileIdx = 0
    /\ deps = << >>
    /\ depIdx = 0
    /\ fetched = << >>
    /\ link = NoLink
    /\ caller = "get_repo_authors"
    /\ token \in Tokens
    /\ repo_url = RepoLink
    /\ filter_bot \in BOOLEAN
    /\ api_request = Request(ApiUrl("contributors", RepoLoc(RepoLink)), Headers(token))
    /\ nth_try = 0
    /\ nreq = 0
    /\ last = NoResponse
    /\ slept = << >>
    /\ qResult = NoResult
    /\ authors_api_list = Unset
    /\ author_names = << >>
    /\ authors = ANone
    /\ repo_data = Unset
    /\ citeResult = CNone
    /\ out = 0
    /\ err = 0
    /\ exc = None
    /\ exitCode = -1
    /\ call = NoCall
    /\ ret = NoRet

NextAuthors ==
    \/ QueryAttempt
    \/ QueryExhausted
    \/ ContribReturn
    \/ AuthorReturn

SpecAuthors == InitAuthors /\ [][NextAuthors]_vars

(***************************************************************************)
(* The classifiers, search_for_doi_or_github and the manifest parser on    *)
(* their own.  Here a Python str is the sequence of its characters, and a  *)
(* regular expression is the set of offsets at which it can stop when      *)
(* started at a given offset (an offset is a number of characters          *)
(* consumed).                                                              *)
(***************************************************************************)
Digits == { "0", "1", "2", "3", "4", "5", "6", "7", "8", "9" }
Lowers ==
    { "a", "b", "c", "d", "e", "f", "g", "h", "i", "j", "k", "l", "m",
      "n", "o", "p", "q", "r", "s", "t", "u", "v", "w", "x", "y", "z" }
Uppers ==
    { "A", "B", "C", "D", "E", "F", "G", "H", "I", "J", "K", "L", "M",
      "N", "O", "P", "Q", "R", "S", "T", "U", "V", "W", "X", "Y", "Z" }
\* \w, [\w\-] (also [\w\-\_]) and [-._;()/:A-Za-z0-9] over ASCII
WordChars == Lowers \cup Uppers \cup Digits \cup { "_" }
WordDash == WordChars \cup { "-" }
DoiChars ==
    Lowers \cup Uppers \cup Digits \cup { "-", ".", "_", ";", "(", ")", "/", ":" }
\* what str.strip() removes
Whitespace == { " ", "\t", "\n" }

Min(S) == CHOOSE x \in S : \A y \in S : x <= y
Max(S) == CHOOSE x \in S : \A y \in S : x >= y

\* a literal, started at each offset of P
Lit(s, P, lit) ==
    { p + Len(lit) : p \in { q \in P : /\ q + Len(lit) <= Len(s)
                                        /\ SubSeq(s, q + 1, q + Len(lit)) = lit } }
\* x? for a literal x
OptLit(s, P, lit) == P \cup Lit(s, P, lit)
\* [class]{lo,hi}
Rep(s, P, class, lo, hi) ==
    UNION { { p + k : k \in { n \in lo..hi :
                                /\ p + n <= Len(s)
                                /\ \A m \in 1..n : s[p + m] \in class } } :
            p \in P }
\* [class]+
Plus(s, P, class) == Rep(s, P, class, 1, Len(s))

S_http == << "h", "t", "t", "p" >>
S_s == << "s" >>
S_css == << ":", "/", "/" >>
S_doi_org == << "d", "o", "i", ".", "o", "r", "g", "/" >>
S_github_com == << "g", "i", "t", "h", "u", "b", ".", "c", "o", "m", "/" >>
S_10dot == << "1", "0", "." >>
S_slash == << "/" >>

\* https?://
HttpScheme(s, P) == Lit(s, OptLit(s, Lit(s, P, S_http), S_s), S_css)

\* cite.py 27: https?://doi\.org/10\.\d{4,9}/[-._;()/:A-Za-z0-9]+
doi_regex(s, P) ==
    Plus(s, Lit(s, Rep(s, Lit(s, Lit(s, HttpScheme(s, P), S_doi_org), S_10dot),
                       Digits, 4, 9),
                S_slash),
         DoiChars)

\* cite.py 36 and 224: https?://github\.com/[\w\-]+/[\w\-]+
github_regex(s, P) ==
    Plus(s, Lit(s, Plus(s, Lit(s, HttpScheme(s, P), S_github_com), WordDash),
                S_slash),
         WordDash)

\* re.match: the pattern can stop somewhere when started at offset 0
is_doi_url_str(s) == doi_regex(s, {0}) # {}
is_github_repo_str(s) == github_regex(s, {0}) # {}

\* a Python value handed to a function: its type and its text
Value(type, text) == [type |-> type, text |-> text]
\* a classifier returns a bool or raises
BReturn(b) == [kind |-> "return", val |-> b, exc |-> None]
BRaise(name) == [kind |-> "raise", val |-> FALSE, exc |-> name]

RECURSIVE LStrip(_)
LStrip(s) ==
    IF s # << >> /\ Head(s) \in Whitespace THEN LStrip(Tail(s)) ELSE s
RECURSIVE RStrip(_)
RStrip(s) ==
    IF s # << >> /\ s[Len(s)] \in Whitespace
    THEN RStrip(SubSeq(s, 1, Len(s) - 1))
    ELSE s
strip(s) == RStrip(LStrip(s))

\* offset of the first character of s at or after offset p that is in
\* class; Len(s) when there is none
Find(s, p, class) ==
    Min({ i \in p..Len(s) : i = Len(s) \/ s[i + 1] \in class })

\* urllib.parse.urlsplit of a str: scheme and netloc, or ValueError
SchemeChars == Lowers \cup Uppers \cup Digits \cup { "+", "-", "." }
urlsplit(text) ==
    LET url == SelectSeq(LStrip(text), LAMBDA c : c \notin { "\t", "\n" })
        i == Find(url, 0, { ":" })
        hasScheme ==
            /\ i > 0
            /\ i < Len(url)
            /\ url[1] \in Lowers \cup Uppers
            /\ \A m \in 1..i : url[m] \in SchemeChars
        scheme == IF hasScheme THEN SubSeq(url, 1, i) ELSE << >>
        rest == IF hasScheme THEN SubSeq(url, i + 2, Len(url)) ELSE url
        hasNetloc == Len(rest) >= 2 /\ SubSeq(rest, 1, 2) = << "/", "/" >>
        netloc ==
            IF hasNetloc
            THEN SubSeq(rest, 3, Find(rest, 2, { "/", "?", "#" }))
            ELSE << >>
        open == \E m \in DOMAIN netloc : netloc[m] = "["
        close == \E m \in DOMAIN netloc : netloc[m] = "]"
    IN  IF open # close
        THEN [raises |-> TRUE, scheme |-> << >>, netloc |-> << >>]
        ELSE [raises |-> FALSE, scheme |-> scheme, netloc |-> netloc]

\* cite.py 16-22, for an argument of any type.  urlparse(None) gives empty
\* components; any other non-str has no decode method
is_url_of(v) ==
    IF v.type = "str"
    THEN LET result == urlsplit(v.text)
         IN  IF result.raises THEN BReturn(FALSE)
             ELSE BReturn(result.scheme # << >> /\ result.netloc # << >>)
    ELSE IF v.type = "NoneType" THEN BReturn(FALSE)
    ELSE BRaise("AttributeError")

\* cite.py 25-31 and 34-40: re.match of a non-str raises TypeError
is_doi_url_of(v) ==
    IF v.type = "str" THEN BReturn(is_doi_url_str(v.text)) ELSE BRaise("TypeError")
is_github_repo_of(v) ==
    IF v.type = "str" THEN BReturn(is_github_repo_str(v.text)) ELSE BRaise("TypeError")

\* what re.search hands back: no match, or the text of one group
NoMatch == [found |-> FALSE, text |-> << >>]
Group(text) == [found |-> TRUE, text |-> text]

\* group 3 of doi_re (cite.py 223): 10\.\d{4,9}/[-._;()/:A-Za-z0-9]+[0-9]
doi_group3(s, P) ==
    Rep(s, Plus(s, Lit(s, Rep(s, Lit(s, P, S_10dot), Digits, 4, 9), S_slash),
                DoiChars),
        Digits, 1, 1)
\* doi_re started at offset i: (https?://)?(doi\.org/)? leaves group 3 to
\* start at one of these offsets, tried in this order (an optional group is
\* tried present before absent)
Group3Starts(s, i) ==
    LET g1 == HttpScheme(s, {i})
    IN  << Lit(s, g1, S_doi_org), g1, Lit(s, {i}, S_doi_org), {i} >>
\* the match of doi_re started at offset i, as {<<start, end>>} of group 3;
\* the greedy tail stops at the last offset it can
doi_re(s, i) ==
    LET alts == Group3Starts(s, i)
        ok == { n \in DOMAIN alts : doi_group3(s, alts[n]) # {} }
    IN  IF ok = {} THEN {}
        ELSE LET j == CHOOSE x \in alts[Min(ok)] : TRUE
             IN  { << j, Max(doi_group3(s, {j})) >> }

\* the reading of line 226 without the prefix
DoiUrl_Bare(group3) == group3

\* line 226: "https://doi.org/" + doi.group(3)
DoiUrl(group3) == S_http \o S_s \o S_css \o S_doi_org \o group3

\* lines 223-231 once the page is read: re.search takes the leftmost start
search_for_doi_or_github_in(data) ==
    LET doiStarts == { i \in 0..Len(data) : doi_re(data, i) # {} }
        ghStarts == { i \in 0..Len(data) : github_regex(data, {i}) # {} }
    IN  IF doiStarts # {}
        THEN LET m == CHOOSE x \in doi_re(data, Min(doiStarts)) : TRUE
             IN  Group(DoiUrl(SubSeq(data, m[1] + 1, m[2])))
        ELSE IF ghStarts # {}
        THEN LET i == Min(ghStarts)
             IN  Group(SubSeq(data, i + 1, Max(github_regex(data, {i}))))
        ELSE NoMatch

S_dependencies ==
    << "d", "e", "p", "e", "n", "d", "e", "n", "c", "i", "e", "s", ":" >>
S_item == << "-", " " >>

\* cite.py 274: - ([\w][\w\-\_]+)
dependency_regex(s, P) ==
    Plus(s, Rep(s, Lit(s, P, S_item), WordChars, 1, 1), WordDash)

\* a parser that hands back the names gathered before such a line
NoHit_ReturnsCollected(acc) == DReturn(acc)

\* line 285 when line 284 found nothing: None has no group
NoHit(acc) == DRaise("AttributeError")

\* cite.py 271-287 on the lines of the file, from line k on
RECURSIVE ParseYaml(_, _, _, _)
ParseYaml(lines, k, in_dependencies, acc) ==
    IF k > Len(lines) THEN DReturn(acc)
    ELSE LET line == lines[k]
             stripped == strip(line)
         IN  IF stripped = << >> \/ Head(stripped) = "#"
             THEN ParseYaml(lines, k + 1, in_dependencies, acc)
             ELSE IF stripped = S_dependencies
             THEN ParseYaml(lines, k + 1, TRUE, acc)
             ELSE IF in_dependencies
             THEN LET hits == { i \in 0..Len(line) :
                                    dependency_regex(line, {i}) # {} }
                  IN  IF hits = {} THEN NoHit(acc)
                      ELSE LET i == Min(hits)
                               library ==
                                   SubSeq(line, i + 3,
                                          Max(dependency_regex(line, {i})))
                           IN  ParseYaml(lines, k + 1, in_dependencies,
                                         Append(acc, library))
             ELSE ParseYaml(lines, k + 1, in_dependencies, acc)
extract_dependencies_from_yaml_lines(lines) == ParseYaml(lines, 1, FALSE, << >>)

\* the texts the functions are called with: up to MaxPieces pieces, one
\* after the other
S_doi == << "1", "0", ".", "1", "2", "3", "4", "/", "a", "b", "1" >>
S_short_doi == << "1", "0", ".", "1", "2", "3", "/", "a", "1" >>
S_repo == << "a", "b", "/", "c", "-", "d" >>
Pieces ==
    { S_http \o S_s \o S_css, S_doi_org, S_doi, S_short_doi,
      S_github_com \o S_repo, << " " >>, << "x" >>, << "/", "e" >> }
RECURSIVE Concat(_)
Concat(parts) == IF parts = << >> THEN << >> ELSE Head(parts) \o Concat(Tail(parts))
Texts == { Concat(parts) : parts \in UNION { [1..n -> Pieces] : n \in 0..MaxPieces } }

\* what a test hands a classifier: 45, 4.5, None, or a str
Values ==
    { Value("int", << "4", "5" >>), Value("float", << "4", ".", "5" >>),
      Value("NoneType", << >>) }
    \cup { Value("str", t) : t \in Texts }

\* the lines of a manifest, each with its line end
Line(text) == text \o << "\n" >>
Lines ==
    { Line(S_dependencies),
      Line(<< " ", " ", "-", " ", "n", "u", "m", "p", "y" >>),
      Line(<< " ", " ", "-", " ", "r" >>),
      Line(<< "-", " ", "a", "b", "=", "1" >>),
      Line(<< "c", "h", "a", "n", "n", "e", "l", "s", ":" >>),
      Line(<< "#", " ", "-", " ", "z", "z" >>),
      Line(<< " " >>) }
Manifests == UNION { [1..n -> Lines] : n \in 0..MaxLines }

Classifiers == { "is_url", "is_doi_url", "is_github_repo" }
Classify(fn, v) ==
    CASE fn = "is_url" -> is_url_of(v)
      [] fn = "is_doi_url" -> is_doi_url_of(v)
      [] fn = "is_github_repo" -> is_github_repo_of(v)

Call(fn, arg) == [fn |-> fn, arg |-> arg]

CallClassifier ==
    /\ pc = "call"
    /\ \E fn \in Classifiers, v \in Values :
          /\ call' = Call(fn, v)
          /\ ret' = Classify(fn, v)
    /\ pc' = "returned"
    /\ UNCHANGED << target, github_token, loopVars, fetched, link, caller,
                    citeVars, queryVars, out, err, exc, exitCode >>

\* search_for_doi_or_github on a page that urlopen has read
CallSearch ==
    /\ pc = "call"
    /\ \E data \in Texts :
          /\ call' = Call("search_for_doi_or_github", Value("str", data))
          /\ ret' = search_for_doi_or_github_in(data)
    /\ pc' = "returned"
    /\ UNCHANGED << target, github_token, loopVars, fetched, link, caller,
                    citeVars, queryVars, out, err, exc, exitCode >>

CallYaml ==
    /\ pc = "call"
    /\ \E lines \in Manifests :
          /\ call' = Call("extract_dependencies_from_yaml", lines)
          /\ ret' = extract_dependencies_from_yaml_lines(lines)
    /\ pc' = "returned"
    /\ UNCHANGED << target, github_token, loopVars, fetched, link, caller,
                    citeVars, queryVars, out, err, exc, exitCode >>

InitFn ==
    /\ target = NoTarget
    /\ github_token = None
    /\ pc = "call"
    /\ files = << >>
    /\ fileIdx = 0
    /\ deps = << >>
    /\ depIdx = 0
    /\ fetched = << >>
    /\ link = NoLink
    /\ caller = "library"
    /\ token = None
    /\ repo_url = None
    /\ filter_bot = TRUE
    /\ api_request = NoRequest
    /\ nth_try = 0
    /\ nreq = 0
    /\ last = NoResponse
    /\ slept = << >>
    /\ qResult = NoResult
    /\ authors_api_list = Unset
    /\ author_names = << >>
    /\ authors = ANone
    /\ repo_data = Unset
    /\ citeResult = CNone
    /\ out = 0
    /\ err = 0
    /\ exc = None
    /\ exitCode = -1
    /\ call = NoCall
    /\ ret = NoRet

NextFn ==
    \/ CallClassifier
    \/ CallSearch
    \/ CallYaml

SpecFn == InitFn /\ [][NextFn]_vars

(***************************************************************************)
(* Properties                                                              *)
(***************************************************************************)
Absent == Return(NoJson)        \* _query_github_api returning None
RanLoop == caller \in {"file", "dir"}
\* exceptions of reading a manifest, which no dependency is to blame for
ParseFailures == {"AttributeError", "FileNotFoundError"}
RateLimitCodes == {403, 429}
Matches(page) == page.ok /\ (page.doi # None \/ page.gh # None)
\* the link search_for_doi_or_github takes from a page that matches
LinkOf(page) == IF page.doi # None THEN DoiUrlOf(page.doi) ELSE page.gh

\* C1: in file and directory mode no failure of probing or citing a
\* dependency leaves main uncaught, and when the run ends every dependency
\* of the manifest has been probed.
C1_FailureIsolated ==
    (RanLoop /\ pc = "exit" /\ exc \notin ParseFailures)
        => (exc = None /\ depIdx = Len(deps))

\* C2: every dependency gets exactly one BibTeX unit or exactly one
\* diagnostic line, a dependency without a link gets the diagnostic, and
\* the run ends with no dependency left out.
C2_OneOutputPerDependency ==
    /\ (RanLoop /\ depIdx >= 1 /\ pc \in {"loop", "dirloop", "exit"}
            /\ exc \notin ParseFailures)
          => out + err = 1
    /\ (RanLoop /\ depIdx >= 1 /\ pc = "loop" /\ link = LReturn(None))
          => (err = 1 /\ out = 0)
    /\ (RanLoop /\ pc = "exit" /\ exc \notin ParseFailures)
          => depIdx = Len(deps)

\* C3 as stated: an attempt that receives 404 ends the call at once with the
\* absent value, without a sleep and without raising.
C3_NotFoundReturnsAbsent ==
    last.code = 404 => (pc # "query" /\ qResult = Absent /\ slept = << >>)

\* C3: an attempt that receives 404 ends the call at once by raising that
\* HTTPError: the handler does not sleep and no further request is issued.
C3_NotFoundRaisesAtOnce ==
    last.code = 404 =>
        /\ pc # "query"
        /\ qResult = Raise("HTTPError", 404)
        /\ slept = << >>
        /\ nreq = nth_try + 1

C3_Witness == last.code = 404 /\ nreq = 2 /\ pc = "qret"

\* C4: a 403 or 429 whose indicated wait exceeds max_wait ends the call with
\* the absent value, without a sleep and without another request.
C4_OverBudgetReturnsAbsent ==
    \A now \in Times :
        (last.kind = "HTTPError" /\ last.code \in RateLimitCodes
            /\ IndicatedWait(last, now) > max_wait)
          => (pc # "query" /\ qResult = Absent /\ slept = << >>)

\* C5 as stated: a call whose max_retries attempts all ended without a
\* terminal outcome returns the absent value and raises nothing.
C5_ExhaustionReturnsAbsent ==
    (nth_try = max_retries /\ pc # "query") => qResult = Absent

\* C5: a call whose max_retries attempts all ended without a terminal
\* outcome ends by raising a plain Exception, after max_retries requests.
C5_ExhaustionRaises ==
    (nth_try = max_retries /\ pc # "query")
        => (qResult = Raise("Exception", 0) /\ nreq = max_retries)

C5_Witness == nth_try = max_retries /\ pc = "qret"

\* C6 as stated: after an HTTP error other than 404, 403 and 429, with fewer
\* than max_retries attempts made, the call goes on to another attempt; and
\* a 2xx response is returned as the decoded JSON.
C6_OtherStatusRetried ==
    /\ (last.kind = "HTTPError" /\ last.code \notin ({404} \cup RateLimitCodes)
            /\ nreq < max_retries)
          => (pc = "query" /\ qResult = NoResult)
    /\ last.kind = "ok" => qResult = Return(last.body)

\* C6: an HTTP error other than 404, 403 and 429 ends the call at that
\* attempt by raising that HTTPError, however few attempts were made; a 2xx
\* response, also one that follows retried attempts, is returned as the
\* decoded JSON.
C6_OtherStatusRaises ==
    /\ (last.kind = "HTTPError" /\ last.code \notin ({404} \cup RateLimitCodes))
          => (pc # "query" /\ qResult = Raise("HTTPError", last.code)
                /\ nreq = nth_try + 1)
    /\ last.kind = "ok" => (pc # "query" /\ qResult = Return(last.body))

C6_Witness == last.code = 500 /\ nreq = 2 /\ nreq < max_retries /\ pc = "qret"

\* C7: the pages are fetched in the order package index, bioconda,
\* conda-forge; a page is fetched only when no page before it matched; the
\* result is the link of the first page that matches.
C7_ProbeOrderShortCircuit ==
    pc \in {"probe", "probed"} =>
        /\ Len(fetched) <= 3
        /\ \A i \in 1..Len(fetched) :
              /\ fetched[i].url.dependency = deps[depIdx]
              /\ fetched[i].url.site =
                    << "pypi.org/pypi", "bioconda.github.io/recipes",
                       "anaconda.org/conda-forge" >>[i]
              /\ i < Len(fetched) => ~Matches(fetched[i].page)
        /\ (pc = "probed" /\ Len(fetched) < 3)
              => Matches(fetched[Len(fetched)].page)
        /\ (pc = "probed" /\ Matches(fetched[Len(fetched)].page))
              => link = LReturn(LinkOf(fetched[Len(fetched)].page))

C7_Witness ==
    /\ pc = "probed"
    /\ Len(fetched) = 3
    /\ Matches(fetched[3].page)
    /\ link.val # None

\* C8: a failed fetch only skips its source: the next source is still
\* fetched, search_repositories never raises, and its result is None
\* exactly when none of the three pages matched.
C8_FailedFetchIsSkipped ==
    pc = "probed" =>
        /\ link.kind = "return"
        /\ \A i \in 1..Len(fetched) :
              (~fetched[i].page.ok /\ i < 3) => Len(fetched) > i
        /\ link.val = None <=>
              (Len(fetched) = 3 /\ \A i \in 1..3 : ~Matches(fetched[i].page))

C8_Witness ==
    /\ pc = "probed"
    /\ Len(fetched) >= 2
    /\ ~fetched[1].page.ok
    /\ link.val # None

\* C9 as stated: when the contributor fetch or the metadata fetch yields
\* nothing, cite_github_repo returns the absent value.
C9_AbsentWhenFetchAbsent ==
    (pc = "cited" /\ (~authors_api_list.set \/ ~repo_data.set))
        => citeResult = CReturn(NoRecord)

\* C9: cite_github_repo returns a record only when both fetches succeeded,
\* and then a fully populated one; when the contributor fetch fails it
\* raises that error without asking for the metadata, and when the metadata
\* fetch fails it raises that error; it never returns without a record.
C9_RecordOnlyWhenBothFetched ==
    pc = "cited" =>
        /\ citeResult.kind \in {"return", "raise"}
        /\ citeResult.kind = "return" =>
              /\ authors_api_list.set
              /\ repo_data.set
              /\ citeResult.rec.key # None
              /\ citeResult.rec.title # None
              /\ citeResult.rec.url = repo_url
              /\ Len(citeResult.rec.date) = 4
              /\ Len(citeResult.rec.author) <= Len(authors_api_list.val.list)
        /\ ~authors_api_list.set =>
              /\ citeResult = CRaise(qResult.exc, qResult.code)
              /\ qResult.kind = "raise"
              /\ api_request.url.api = "contributors"
              /\ ~repo_data.set
        /\ (authors_api_list.set /\ ~repo_data.set) =>
              /\ citeResult = CRaise(qResult.exc, qResult.code)
              /\ qResult.kind = "raise"

C9_Witness ==
    /\ pc = "cited"
    /\ authors_api_list.set
    /\ Len(author_names) >= 1
    /\ ~repo_data.set
    /\ citeResult.kind = "raise"

\* C10: every request sent to the GitHub API carries the token header when
\* a token was given on the command line, and none does when none was.
C10_TokenOnEveryRequest ==
    nreq > 0 =>
        (Truthy(github_token)
            <=> << "Authorization", github_token >> \in api_request.headers)

\* C11: a URL target that is neither a DOI link nor a repository link gets
\* an "unable to cite" diagnostic on the error stream, and no URL target
\* ends the run with nothing written to either stream.
C11_UnclassifiedUrlDiagnosed ==
    /\ (caller = "url_other" /\ pc = "exit") => err >= 1
    /\ (caller \in {"url_doi", "url_repo", "url_other"} /\ pc = "exit"
            /\ exc = None)
          => out + err >= 1

\* C12: in directory mode every .yaml / .yml entry is read from inside the
\* target directory, wherever the run was started, so reading an entry the
\* listing returned never fails for want of the file.
C12_DirectoryManifestsParsed ==
    caller = "dir" => exc # "FileNotFoundError"

\* the three ways the specification lets a _query_github_api call end, told
\* apart by their cause whichever way the code reports them
Succeeded == qResult.kind = "return" /\ last.kind = "ok"
NotFoundEnd == last.code = 404 /\ qResult \in {Absent, Raise("HTTPError", 404)}
ExhaustedEnd == nth_try >= max_retries /\ qResult \in {Absent, Exhausted}

\* C15: a _query_github_api call sends at most max_retries requests and
\* ends as Succeeded, as not found or as exhausted, in no other way.
C15_ThreeTerminalOutcomes ==
    /\ nreq <= max_retries
    /\ pc = "qret" => (Succeeded \/ NotFoundEnd \/ ExhaustedEnd)

\* a 403 / 429 that names no wait: no retry-after header in either
\* spelling and no x-ratelimit-remaining header reading zero
NamesNoWait(e) ==
    /\ e.kind = "HTTPError"
    /\ e.code \in RateLimitCodes
    /\ ~HdrHas(e.headers, "retry_after")
    /\ ~HdrHas(e.headers, "retry-after")
    /\ ~(HdrHas(e.headers, "x-ratelimit-remaining")
           /\ e.headers["x-ratelimit-remaining"].val = 0)

\* C16: when attempt n (counted from 1) of _query_github_api gets a 403 or
\* 429 that names no wait, the call sleeps exactly 60 * n seconds, once,
\* and goes on to the next pass of the loop.
C16_LinearBackoff ==
    (nreq >= 1 /\ NamesNoWait(last))
        => (slept = << 60 * nreq >> /\ nth_try = nreq)
C16_Witness ==
    /\ NamesNoWait(last)
    /\ nreq = max_retries
    /\ slept = << 60 * max_retries >>
    /\ pc = "query"

\* the name the specification gives a contributor: the display name when
\* the lookup came back with a non-empty one, the username otherwise
DisplayOrLogin(author, r) ==
    IF r.kind = "return" /\ r.val.name \notin {None, ""}
    THEN r.val.name
    ELSE author.login

\* C17: with filter_bot off and the contributor list fetched, every lookup
\* that comes back, failed or not, appends the display name or else the
\* username of the next contributor, in the order of the list, and after
\* the last one get_repo_authors returns the names so gathered.
C17_OneNamePerContributor ==
    [][ (pc = "qret" /\ api_request.url.api = "users" /\ ~filter_bot)
          => LET list == authors_api_list.val.list
                 i == Len(author_names) + 1
                 names == Append(author_names, DisplayOrLogin(list[i], qResult))
             IN  /\ author_names' = names
                 /\ IF i < Len(list) THEN authors' = ANone
                                     ELSE authors' = AReturn(names) ]_vars
\* two contributors, the first lookup failed, the second gave a name
C17_Witness ==
    /\ pc = "returned"
    /\ ~filter_bot
    /\ Len(authors_api_list.val.list) = 2
    /\ authors = AReturn(<< "dependabot[bot]", "Mona Lisa" >>)
    /\ authors_api_list.val.list[2].login = "octocat"

\* the contributors whose username does not end in [bot]
NonBots(list) == { i \in 1..Len(list) : ~endswith_bot(list[i].login) }

\* C18: with filter_bot on, the list get_repo_authors returns has an entry
\* for each contributor whose username does not end in [bot] and for no
\* other, whatever the lookups resolved.
C18_NoBotEntry ==
    (pc = "returned" /\ filter_bot /\ authors.kind = "return")
        => Len(authors.names) = Cardinality(NonBots(authors_api_list.val.list))

\* C13: called with a value that is not a str, each of is_url, is_doi_url
\* and is_github_repo returns False and raises nothing.
C13_NonStringIsFalse ==
    (call.fn \in Classifiers /\ call.arg.type # "str") => ret = BReturn(FALSE)

\* the list-item pattern as the specification words it, - <name> with a
\* name of a word character and then any number of word characters,
\* hyphens and underscores
ItemPattern(s, P) ==
    Rep(s, Rep(s, Lit(s, P, S_item), WordChars, 1, 1), WordDash, 0, Len(s))
Blank(line) == strip(line) = << >>
Comment(line) == ~Blank(line) /\ Head(strip(line)) = "#"
Marker(line) == strip(line) = S_dependencies
\* an item line: after trimming it starts with the pattern
Item(line) == ItemPattern(strip(line), {0}) # {}
ItemName(line) == SubSeq(strip(line), 3, Max(ItemPattern(strip(line), {0})))
\* line k comes after a marker line
InRegion(lines, k) == \E j \in 1..(k - 1) : Marker(lines[j])
\* the lines the pattern is looked for in
Scanned(lines) ==
    { k \in DOMAIN lines :
        /\ InRegion(lines, k)
        /\ ~Blank(lines[k]) /\ ~Comment(lines[k]) /\ ~Marker(lines[k]) }
RECURSIVE NamesFrom(_, _)
NamesFrom(lines, k) ==
    IF k > Len(lines) THEN << >>
    ELSE IF k \in Scanned(lines) /\ Item(lines[k])
    THEN << ItemName(lines[k]) >> \o NamesFrom(lines, k + 1)
    ELSE NamesFrom(lines, k + 1)

\* C14: of a manifest whose list region holds only items, blank lines and
\* comments, the parser returns the names of the items after the marker,
\* in order, every name of one or more characters among them.
C14_NamesAfterMarker ==
    (/\ call.fn = "extract_dependencies_from_yaml"
     /\ \A k \in Scanned(call.arg) : Item(call.arg[k]))
        => ret = DReturn(NamesFrom(call.arg, 1))

\* C19: a manifest with a line in its list region that is not blank, not a
\* comment and holds the list-item pattern nowhere makes the parser raise;
\* no list is returned, with or without the names gathered before.
C19_MalformedLineFails ==
    (/\ call.fn = "extract_dependencies_from_yaml"
     /\ \E k \in Scanned(call.arg) :
            \A i \in 0..Len(call.arg[k]) : ItemPattern(call.arg[k], {i}) = {})
        => (ret.kind = "raise" /\ ret.deps = << >>)
\* an item, then a top-level key
C19_Witness ==
    /\ call.fn = "extract_dependencies_from_yaml"
    /\ Len(call.arg) = 3
    /\ Marker(call.arg[1])
    /\ Item(call.arg[2])
    /\ ItemName(call.arg[2]) = << "n", "u", "m", "p", "y" >>
    /\ strip(call.arg[3]) = << "c", "h", "a", "n", "n", "e", "l", "s", ":" >>
    /\ ret = DRaise("AttributeError")

\* C20: a link search_for_doi_or_github returns is accepted by exactly one
\* of is_doi_url and is_github_repo, neither of which raises on it.
C20_ExactlyOneClassifier ==
    (call.fn = "search_for_doi_or_github" /\ ret.found)
        => LET lnk == Value("str", ret.text)
           IN  /\ is_doi_url_of(lnk).kind = "return"
               /\ is_github_repo_of(lnk).kind = "return"
               /\ is_doi_url_of(lnk).val # is_github_repo_of(lnk).val
\* a page with a bare DOI right before a repository link: the DOI wins,
\* ends at its last digit and gets its prefix
C20_Witness ==
    /\ call.fn = "search_for_doi_or_github"
    /\ call.arg.text = S_doi \o S_http \o S_s \o S_css \o S_github_com \o S_repo
    /\ ret = Group(S_http \o S_s \o S_css \o S_doi_org \o S_doi)

====
